---- MODULE Spec2Model ----
(***************************************************************************)
(* Content aggregation orchestrator of advanced_workflow/app:              *)
(* ContentAggregator.aggregate_content with its two fetch helpers, the     *)
(* transcript service get_transcript and the report model; the two         *)
(* command-line entry points (scripts/run_aggregation.py, python -m app);  *)
(* the deduplicating repository app/database/repository.py.                *)
(*                                                                         *)
(* Python strings are sequences of one-character strings, so that          *)
(* str.lower(), the substring test `in`, str.strip() and str.split() are   *)
(* computed as the code computes them.  The external capabilities          *)
(* (YouTubeScraper.fetch_videos, AnthropicScraper.fetch_all_articles,      *)
(* YouTubeTranscriptApi.fetch) answer nondeterministically at call time;   *)
(* every answer is recorded in a call log.                                 *)
(***************************************************************************)
EXTENDS Integers, Sequences, FiniteSets, TLC

VARIABLES
    pc,                 \* position inside the running entry point
    config_file,        \* what load_sources_config finds on disk
    include_youtube, include_blogs, include_transcripts,  \* arguments
    config,             \* local `config` of aggregate_content
    enabled_channels,   \* local `enabled_channels` / `channels_config`
    i,                  \* loop index of the running for-loop
    videos, articles, errors,   \* locals of the running _fetch_* helper
    all_videos, all_articles, all_errors,
    sources_attempted, sources_succeeded,
    result,             \* what the entry point returned or raised
    fetch_videos_calls, \* log of YouTubeScraper.fetch_videos invocations
    fetch_articles_calls, \* log of AnthropicScraper.fetch_all_articles invocations
    get_transcript_calls, \* log of get_transcript invocations
    call,               \* arguments of a direct call of one function
    entry_point,        \* the command-line entry point that is running
    args,               \* its parsed command-line flags
    exit_code,          \* what its main() returned
    videos_table,       \* rows of the table `videos`
    articles_table,     \* rows of the table `articles`
    v_saved, v_skipped, a_saved, a_skipped,   \* locals of save_all
    save_calls          \* log of save_video / save_article invocations

vars == <<pc, config_file, include_youtube, include_blogs, include_transcripts,
          config, enabled_channels, i, videos, articles, errors,
          all_videos, all_articles, all_errors,
          sources_attempted, sources_succeeded, result,
          fetch_videos_calls, fetch_articles_calls, get_transcript_calls, call,
          entry_point, args, exit_code,
          videos_table, articles_table, v_saved, v_skipped, a_saved, a_skipped,
          save_calls>>

\* the variables of the command-line entry points and of the repository
main_vars == <<entry_point, args, exit_code>>
repository_vars == <<videos_table, articles_table, v_saved, v_skipped,
                     a_saved, a_skipped, save_calls>>

-----------------------------------------------------------------------------
(* Bounds of the explored inputs *)

\* most channels listed under youtube.channels
MaxChannels == 2
\* most videos the feeds of all the channels hold together
MaxVideos == 2

-----------------------------------------------------------------------------
(* Python values *)

None == [cls |-> "NoneType"]

\* a call that returned v
Return(v) == [raised |-> FALSE, exc |-> None, value |-> v]
\* a call that raised exception type t with str(e) = text
Raise(t, text) == [raised |-> TRUE, exc |-> [cls |-> t, text |-> text], value |-> None]

Digit(n) == ToString(n)

UpperCase == <<"A","B","C","D","E","F","G","H","I","J","K","L","M",
               "N","O","P","Q","R","S","T","U","V","W","X","Y","Z">>
LowerCase == <<"a","b","c","d","e","f","g","h","i","j","k","l","m",
               "n","o","p","q","r","s","t","u","v","w","x","y","z">>
Digits == <<"0","1","2","3","4","5","6","7","8","9">>

Range(f) == {f[k] : k \in DOMAIN f}

\* str.lower()
ToLower ==
    [c \in Range(UpperCase) |-> LowerCase[CHOOSE k \in DOMAIN UpperCase : UpperCase[k] = c]]
LowerChar(c) == IF c \in DOMAIN ToLower THEN ToLower[c] ELSE c
Lower(s) == [k \in 1..Len(s) |-> LowerChar(s[k])]

\* `needle in hay` for two str
Contains(hay, needle) ==
    \E k \in 0..(Len(hay) - Len(needle)) :
        SubSeq(hay, k + 1, k + Len(needle)) = needle

\* str.strip(): drop leading and trailing whitespace
RECURSIVE LStrip(_)
LStrip(s) == IF s # <<>> /\ Head(s) = " " THEN LStrip(Tail(s)) ELSE s
RECURSIVE RStrip(_)
RStrip(s) ==
    IF s # <<>> /\ s[Len(s)] = " " THEN RStrip(SubSeq(s, 1, Len(s) - 1)) ELSE s
Strip(s) == RStrip(LStrip(s))

\* len(s.split()): the number of maximal runs of non-whitespace characters
WordCount(s) ==
    Cardinality({k \in 1..Len(s) : s[k] # " " /\ (k = 1 \/ s[k - 1] = " ")})

\* " ".join(parts)
RECURSIVE Join(_)
Join(parts) ==
    IF parts = <<>> THEN <<>>
    ELSE IF Len(parts) = 1 THEN parts[1]
    ELSE parts[1] \o <<" ">> \o Join(Tail(parts))

-----------------------------------------------------------------------------
(* app/services/youtube_transcript.py *)

\* the class get_transcript instantiates, and the class VideoData.transcript
\* is annotated with (two distinct classes of the same name)
ServiceTranscriptData == "app.services.youtube_transcript.TranscriptData"
ModelTranscriptData == "app.models.transcript.TranscriptData"

S_NoTranscript ==
    <<"N","o"," ","t","r","a","n","s","c","r","i","p","t"," ",
      "a","v","a","i","l","a","b","l","e">>
S_TranscriptUnavailable ==
    <<"T","r","a","n","s","c","r","i","p","t"," ",
      "u","n","a","v","a","i","l","a","b","l","e",":"," ">>
S_ErrorFetchingTranscript ==
    <<"E","r","r","o","r"," ","f","e","t","c","h","i","n","g"," ",
      "t","r","a","n","s","c","r","i","p","t",":"," ">>

\* the pattern ^[a-zA-Z0-9_-]{11}$ of TranscriptData.video_id and VideoData.video_id
VideoIdLength == 11
VideoIdChars == Range(UpperCase) \cup Range(LowerCase) \cup Range(Digits) \cup {"_", "-"}
MatchesVideoIdPattern(s) ==
    Len(s) = VideoIdLength /\ \A k \in 1..Len(s) : s[k] \in VideoIdChars

\* TranscriptData(...): pydantic validation of the constructor arguments
TranscriptData(video_id, transcript_text, char_count, word_count, is_available, error_message) ==
    LET text == Strip(transcript_text)
    IN  IF \/ ~MatchesVideoIdPattern(video_id)
           \/ Len(text) < 1
           \/ char_count < 0
           \/ word_count < 0
        THEN Raise("ValidationError", <<>>)
        ELSE Return([cls |-> ServiceTranscriptData,
                     video_id |-> video_id,
                     transcript_text |-> text,
                     char_count |-> char_count,
                     word_count |-> word_count,
                     is_available |-> is_available,
                     error_message |-> error_message])

\* exception classes of the first except clause of get_transcript
TranscriptUnavailableErrors == {"TranscriptsDisabled", "NoTranscriptFound", "VideoUnavailable"}

\* the fallback record built by both except clauses
UnavailableTranscript(video_id, error_msg) ==
    TranscriptData(video_id, S_NoTranscript, 0, 0, FALSE, error_msg)

\* get_transcript without its catch-all except clause
get_transcript_no_catch_all(video_id, return_model, api) ==
    LET transcript_text == Join(api.value)
        built == TranscriptData(video_id, transcript_text, Len(transcript_text),
                                WordCount(transcript_text), TRUE, None)
        tried == IF api.raised THEN api
                 ELSE IF return_model THEN built
                 ELSE Return(transcript_text)
    IN  IF ~tried.raised THEN tried
        ELSE IF tried.exc.cls \in TranscriptUnavailableErrors
        THEN IF return_model
             THEN TranscriptData(video_id, S_NoTranscript, 0, 0, FALSE,
                                 S_TranscriptUnavailable \o tried.exc.text)
             ELSE Return(S_NoTranscript)
        ELSE tried

\* get_transcript(video_id, return_model); `api` is the answer of
\* YouTubeTranscriptApi().fetch(video_id): Return(<list of segment texts>)
\* or Raise(<class>, <str(e)>)
get_transcript(video_id, return_model, api) ==
    LET transcript_text == Join(api.value)
        built == TranscriptData(video_id, transcript_text, Len(transcript_text),
                                WordCount(transcript_text), TRUE, None)
        \* outcome of the try block: a value, or the exception to handle
        tried == IF api.raised THEN api
                 ELSE IF return_model THEN built
                 ELSE Return(transcript_text)
    IN  IF ~tried.raised THEN tried
        ELSE IF tried.exc.cls \in TranscriptUnavailableErrors
        THEN IF return_model
             THEN UnavailableTranscript(video_id, S_TranscriptUnavailable \o tried.exc.text)
             ELSE Return(S_NoTranscript)
        ELSE IF return_model
             THEN UnavailableTranscript(video_id, S_ErrorFetchingTranscript \o tried.exc.text)
             ELSE Return(S_NoTranscript)

-----------------------------------------------------------------------------
(* app/config/config_loader.py *)

S_anthropic == <<"a","n","t","h","r","o","p","i","c">>
S_blog == <<"b","l","o","g">>
\* keys of the `blogs` mapping that occur in the explored configurations:
\* the one aggregator the orchestrator has a scraper for, and another one
BlogNames == {S_anthropic, S_blog}

\* YouTubeChannelConfig; the k-th listed channel is called Ch<k> and has the
\* id UC followed by 22 characters, the last of them the digit k
ChannelConfig(k, enabled) ==
    [id |-> <<"U","C","x","x","x","x","x","x","x","x","x","x","x","x",
              "x","x","x","x","x","x","x","x","x", Digit(k)>>,
     name |-> <<"C", "h", Digit(k)>>,
     enabled |-> enabled]

BoolSeqs(n) == UNION {[1..m -> BOOLEAN] : m \in 0..n}

\* the `sources` lists of a blog aggregator that occur in the explored
\* configurations, each entry given by its enabled flag: no entry, one entry,
\* two entries
SourceFlagLists ==
    {<<>>, <<TRUE>>, <<FALSE>>, <<TRUE, TRUE>>}

\* the values of SourcesConfig.youtube: no "channels" key, or a channel list
YoutubeConfigs ==
    {[has_channels |-> FALSE, channels |-> <<>>]} \cup
    {[has_channels |-> TRUE,
      channels |-> [k \in DOMAIN flags |-> ChannelConfig(k, flags[k])]] :
        flags \in BoolSeqs(MaxChannels)}

\* BlogConfig: an enabled flag and a list of BlogSourceConfig (their enabled flags)
BlogConfigs ==
    {[enabled |-> e, sources |-> [k \in DOMAIN flags |-> [enabled |-> flags[k]]]] :
        e \in BOOLEAN, flags \in SourceFlagLists}

\* the values of SourcesConfig.blogs: a dict, kept as its items() in key
\* order; the explored dicts have no key, one key, or both keys with
\* "anthropic" first
BlogDicts ==
    {<<>>} \cup
    {<<[name |-> n, config |-> c]>> : n \in BlogNames, c \in BlogConfigs} \cup
    {<<[name |-> S_anthropic, config |-> c1], [name |-> S_blog, config |-> c2]>> :
        c1 \in BlogConfigs, c2 \in BlogConfigs}

\* SettingsConfig: fetch_timeout_seconds (1..300, default 30)
DefaultFetchTimeout == 30
SettingsConfig(fetch_timeout_seconds) ==
    [fetch_timeout_seconds |-> fetch_timeout_seconds]

\* the explored configurations: the settings are left at their defaults, or,
\* with at most one blog aggregator, fetch_timeout_seconds is set to 10
SourcesConfigs ==
    [youtube : YoutubeConfigs, blogs : BlogDicts,
     settings : {SettingsConfig(DefaultFetchTimeout)}]
    \cup
    [youtube : YoutubeConfigs, blogs : {d \in BlogDicts : Len(d) <= 1},
     settings : {SettingsConfig(10)}]

\* what load_sources_config can find: no file, malformed YAML, YAML that
\* fails validation, or a valid configuration
ConfigFiles ==
    {[status |-> s, data |-> None] : s \in {"missing", "malformed", "invalid"}} \cup
    {[status |-> "ok", data |-> c] : c \in SourcesConfigs}

\* load_sources_config that falls back to the default configuration when
\* there is no file
load_sources_config_with_fallback(file) ==
    CASE file.status = "missing"   ->
            Return([youtube |-> [has_channels |-> FALSE, channels |-> <<>>],
                    blogs |-> <<>>,
                    settings |-> SettingsConfig(DefaultFetchTimeout)])
      [] file.status = "malformed" -> Raise("YAMLError", <<>>)
      [] file.status = "invalid"   -> Raise("ValidationError", <<>>)
      [] OTHER                     -> Return(file.data)

load_sources_config(file) ==
    CASE file.status = "missing"   -> Raise("FileNotFoundError", <<>>)
      [] file.status = "malformed" -> Raise("YAMLError", <<>>)
      [] file.status = "invalid"   -> Raise("ValidationError", <<>>)
      [] OTHER                     -> Return(file.data)

-----------------------------------------------------------------------------
(* External capabilities: the answers they can give *)

S_timed_out == <<"t","i","m","e","d"," ","o","u","t">>
S_http_503 == <<"H","T","T","P"," ","5","0","3">>
\* str(e) of the exceptions fetch_all_articles raises (a timeout, another
\* failure) and of the exception fetch_videos raises
ExcTexts == {S_timed_out, S_http_503}
VideoExcTexts == {S_timed_out}

\* VideoData as fetch_videos builds it: transcript defaults to None
VideoData(channel, n) ==
    [video_id |-> <<"v","i","d","e","o","-","c", channel.id[Len(channel.id)], "-","n", Digit(n)>>,
     channel_id |-> channel.id,
     transcript |-> None]

\* YouTubeScraper.fetch_videos(channel.id, ...): raises, or returns the first
\* entries of the channel's feed, at most `room` of them
FetchVideosAnswers(channel, room) ==
    {Raise("Exception", t) : t \in VideoExcTexts} \cup
    {Return([n \in 1..m |-> VideoData(channel, n)]) : m \in 0..room}

ArticleData(n) == [url |-> <<"u", "r", "l", Digit(n)>>]
\* AnthropicScraper.fetch_all_articles(...): raises, or returns a list of articles
FetchArticlesAnswers ==
    {Raise("Exception", t) : t \in ExcTexts} \cup
    {Return(<<>>), Return(<<ArticleData(1), ArticleData(2)>>)}

\* the time limit of the HTTP request a capability makes: requests.get(url,
\* timeout=30) in AnthropicScraper._fetch_page_html, and feedparser.parse(url),
\* which is given no time limit, in YouTubeScraper.fetch_videos
RequestsGetTimeout == [bounded |-> TRUE, seconds |-> 30]
FeedparserTimeout == [bounded |-> FALSE, seconds |-> 0]

S_hi == <<"h","i">>
S_yo == <<"y","o">>
\* YouTubeTranscriptApi().fetch(video_id) as seen by the orchestrator's
\* enrichment loop: a transcript, or no transcript
EnrichApiAnswers ==
    {Return(<<S_hi, S_yo>>), Raise("TranscriptsDisabled", S_timed_out)}

-----------------------------------------------------------------------------
(* app/services/orchestrator.py *)

S_FailedVideos ==
    <<"F","a","i","l","e","d"," ","t","o"," ","f","e","t","c","h"," ",
      "v","i","d","e","o","s"," ","f","r","o","m"," ","c","h","a","n","n","e","l"," ">>
S_FailedArticles ==
    <<"F","a","i","l","e","d"," ","t","o"," ","f","e","t","c","h"," ",
      "a","r","t","i","c","l","e","s"," ","f","r","o","m"," ",
      "A","n","t","h","r","o","p","i","c"," ","b","l","o","g",":"," ">>

\* f"Failed to fetch videos from channel {channel.name} ({channel.id}): {e}"
ChannelErrorMsg(channel, e) ==
    S_FailedVideos \o channel.name \o <<" ", "(">> \o channel.id \o <<")", ":", " ">> \o e
\* f"Failed to fetch articles from Anthropic blog: {e}"
BlogErrorMsg(e) == S_FailedArticles \o e

\* FetchChannelStep that swallows a failure: no error entry for the channel
FetchChannelStepSwallowing(acc, channel, answer) ==
    IF answer.raised
    THEN acc
    ELSE [acc EXCEPT !.videos = @ \o answer.value]

\* FetchChannelStep that puts the videos of a channel before the earlier ones
FetchChannelStepPrepending(acc, channel, answer) ==
    IF answer.raised
    THEN [acc EXCEPT !.errors = Append(@, ChannelErrorMsg(channel, answer.exc.text))]
    ELSE [acc EXCEPT !.videos = answer.value \o @]

\* one iteration of `for channel in channels_config` given the capability's answer
FetchChannelStep(acc, channel, answer) ==
    IF answer.raised
    THEN [acc EXCEPT !.errors = Append(@, ChannelErrorMsg(channel, answer.exc.text))]
    ELSE [acc EXCEPT !.videos = @ \o answer.value]

\* `video.transcript = value` under validate_assignment: pydantic accepts None
\* or an instance of the annotated class and rejects an instance of another class
AssignTranscript(video, value) ==
    IF value = None \/ value.cls = ModelTranscriptData
    THEN Return([video EXCEPT !.transcript = value])
    ELSE Raise("ValidationError", <<>>)

\* EnrichStep that drops a video whose transcript API call failed
EnrichStepDroppingFailed(vs, k, api) ==
    IF api.raised
    THEN SubSeq(vs, 1, k - 1) \o SubSeq(vs, k + 1, Len(vs))
    ELSE vs

\* one iteration of `for video in videos` of the transcript loop: the try
\* block calls get_transcript and assigns; the except clause keeps the video
\* as it is
EnrichStep(vs, k, api) ==
    LET got == get_transcript(vs[k].video_id, TRUE, api)
        assigned == IF got.raised THEN got ELSE AssignTranscript(vs[k], got.value)
    IN  IF assigned.raised THEN vs ELSE [vs EXCEPT ![k] = assigned.value]

\* BlogIsFetched that takes every enabled blog for the scraped one
BlogIsFetchedWhenEnabled(blog) == blog.config.enabled

\* one iteration of `for blog_name, blog_config in blogs_config.items()`;
\* `answer` is the capability's answer, used when the blog is fetched
BlogIsFetched(blog) == blog.config.enabled /\ blog.name = S_anthropic
FetchBlogStep(acc, blog, answer) ==
    IF ~blog.config.enabled THEN acc
    ELSE IF blog.name = S_anthropic
    THEN IF answer.raised
         THEN [acc EXCEPT !.errors = Append(@, BlogErrorMsg(answer.exc.text))]
         ELSE [acc EXCEPT !.articles = @ \o answer.value]
    ELSE acc

\* [e for e in errors if blog_name in e.lower()]
BlogErrors(blog_name, errs) == SelectSeq(errs, LAMBDA e : Contains(Lower(e), blog_name))

\* the loop "Count blog sources" over config.blogs.items(), from blog k on
RECURSIVE CountBlogSources(_, _, _, _)
CountBlogSources(blogs, errs, k, acc) ==
    IF k > Len(blogs) THEN acc
    ELSE LET blog == blogs[k]
             n == Len(blog.config.sources)
         IN  IF blog.config.enabled
             THEN CountBlogSources(blogs, errs, k + 1,
                    [attempted |-> acc.attempted + n,
                     succeeded |-> acc.succeeded + n - Len(BlogErrors(blog.name, errs))])
             ELSE CountBlogSources(blogs, errs, k + 1, acc)

\* AggregationMetadata(...): pydantic validation of the ge=0 counters
AggregationMetadata(total_items, videos_count, articles_count, errs, attempted, succeeded) ==
    IF \/ total_items < 0 \/ videos_count < 0 \/ articles_count < 0
       \/ attempted < 0 \/ succeeded < 0
    THEN Raise("ValidationError", <<>>)
    ELSE Return([total_items |-> total_items,
                 videos_count |-> videos_count,
                 articles_count |-> articles_count,
                 errors |-> errs,
                 sources_attempted |-> attempted,
                 sources_succeeded |-> succeeded])

\* BuildReport with total_items computed from the videos alone
BuildReportVideosOnly(vs, as, errs, attempted, succeeded) ==
    LET metadata == AggregationMetadata(Len(vs), Len(vs), Len(as),
                                        errs, attempted, succeeded)
    IN  IF metadata.raised THEN metadata
        ELSE Return([metadata |-> metadata.value, videos |-> vs, articles |-> as])

\* lines 94-125: build the metadata and the AggregatedContent
BuildReport(vs, as, errs, attempted, succeeded) ==
    LET metadata == AggregationMetadata(Len(vs) + Len(as), Len(vs), Len(as),
                                        errs, attempted, succeeded)
    IN  IF metadata.raised THEN metadata
        ELSE Return([metadata |-> metadata.value, videos |-> vs, articles |-> as])

-----------------------------------------------------------------------------
(* ContentAggregator.aggregate_content as a state machine *)

\* no command-line entry point is running: the function is called directly
NoMain == entry_point = None /\ args = None /\ exit_code = None
\* the repository is not used
NoRepository ==
    /\ videos_table = <<>> /\ articles_table = <<>>
    /\ v_saved = 0 /\ v_skipped = 0 /\ a_saved = 0 /\ a_skipped = 0
    /\ save_calls = <<>>

Init ==
    /\ pc = "start"
    /\ config_file \in ConfigFiles
    /\ include_youtube \in BOOLEAN
    /\ include_blogs \in BOOLEAN
    /\ include_transcripts \in BOOLEAN
    /\ config = None
    /\ enabled_channels = <<>>
    /\ i = 0
    /\ videos = <<>> /\ articles = <<>> /\ errors = <<>>
    /\ all_videos = <<>> /\ all_articles = <<>> /\ all_errors = <<>>
    /\ sources_attempted = 0 /\ sources_succeeded = 0
    /\ result = None
    /\ fetch_videos_calls = <<>>
    /\ fetch_articles_calls = <<>>
    /\ get_transcript_calls = <<>>
    /\ call = None
    /\ NoMain
    /\ NoRepository

\* lines 42-61: load the configuration (re-raising its failure) and
\* initialize the result containers
LoadConfig ==
    /\ pc = "start"
    /\ LET loaded == load_sources_config(config_file)
       IN  IF loaded.raised
           THEN /\ result' = loaded
                /\ pc' = "done"
                /\ UNCHANGED config
           ELSE /\ config' = loaded.value
                /\ pc' = "youtube"
                /\ UNCHANGED result
    /\ all_videos' = <<>> /\ all_articles' = <<>> /\ all_errors' = <<>>
    /\ sources_attempted' = 0 /\ sources_succeeded' = 0
    /\ UNCHANGED <<main_vars, repository_vars,
                   config_file, include_youtube, include_blogs, include_transcripts,
                   enabled_channels, i, videos, articles, errors,
                   fetch_videos_calls, fetch_articles_calls, get_transcript_calls, call>>

\* [ch for ch in channels if ch.enabled]
EnabledChannels(cfg) == SelectSeq(cfg.youtube.channels, LAMBDA ch : ch.enabled)

\* the two conditions of lines 64 and 68
YoutubeIsFetched(cfg, with_youtube) ==
    /\ with_youtube
    /\ cfg.youtube.has_channels
    /\ EnabledChannels(cfg) # <<>>

\* AfterChannels that fetches transcripts whether or not they were asked for
AfterChannelsIgnoringFlag(vs, fetch_transcripts) ==
    IF vs # <<>> THEN "fetch_transcripts" ELSE "return_youtube"

\* where _fetch_youtube_videos goes after its channel loop (line 164)
AfterChannels(vs, fetch_transcripts) ==
    IF fetch_transcripts /\ vs # <<>> THEN "fetch_transcripts" ELSE "return_youtube"

\* lines 64-73 and 142-143: enter _fetch_youtube_videos
BeginYoutube ==
    /\ pc = "youtube"
    /\ YoutubeIsFetched(config, include_youtube)
    /\ enabled_channels' = EnabledChannels(config)
    /\ videos' = <<>>
    /\ errors' = <<>>
    /\ i' = 1
    /\ pc' = "fetch_channels"
    /\ UNCHANGED <<main_vars, repository_vars,
                   config_file, include_youtube, include_blogs, include_transcripts,
                   config, articles, all_videos, all_articles, all_errors,
                   sources_attempted, sources_succeeded, result,
                   fetch_videos_calls, fetch_articles_calls, get_transcript_calls, call>>

\* lines 64 and 68 when a condition is false
SkipYoutube ==
    /\ pc = "youtube"
    /\ ~YoutubeIsFetched(config, include_youtube)
    /\ pc' = "blogs"
    /\ UNCHANGED <<main_vars, repository_vars,
                   config_file, include_youtube, include_blogs, include_transcripts,
                   config, enabled_channels, i, videos, articles, errors,
                   all_videos, all_articles, all_errors,
                   sources_attempted, sources_succeeded, result,
                   fetch_videos_calls, fetch_articles_calls, get_transcript_calls, call>>

\* lines 145-161: one iteration of the channel loop
FetchChannel ==
    /\ pc = "fetch_channels"
    /\ i <= Len(enabled_channels)
    /\ \E answer \in FetchVideosAnswers(enabled_channels[i], MaxVideos - Len(videos)) :
        LET acc == FetchChannelStep([videos |-> videos, errors |-> errors],
                                    enabled_channels[i], answer)
        IN  /\ videos' = acc.videos
            /\ errors' = acc.errors
            /\ fetch_videos_calls' =
                 Append(fetch_videos_calls,
                        [channel_id |-> enabled_channels[i].id, answer |-> answer,
                         timeout |-> FeedparserTimeout])
            /\ IF i < Len(enabled_channels)
               THEN /\ i' = i + 1
                    /\ pc' = "fetch_channels"
               ELSE /\ i' = 1
                    /\ pc' = AfterChannels(acc.videos, include_transcripts)
    /\ UNCHANGED <<main_vars, repository_vars,
                   config_file, include_youtube, include_blogs, include_transcripts,
                   config, enabled_channels, articles,
                   all_videos, all_articles, all_errors,
                   sources_attempted, sources_succeeded, result,
                   fetch_articles_calls, get_transcript_calls, call>>

\* lines 166-172: one iteration of the transcript loop
FetchTranscript ==
    /\ pc = "fetch_transcripts"
    /\ i <= Len(videos)
    /\ \E api \in EnrichApiAnswers :
        /\ videos' = EnrichStep(videos, i, api)
        /\ get_transcript_calls' =
             Append(get_transcript_calls, [video_id |-> videos[i].video_id, api |-> api])
    /\ IF i < Len(videos)
       THEN /\ i' = i + 1
            /\ pc' = "fetch_transcripts"
       ELSE /\ i' = 1
            /\ pc' = "return_youtube"
    /\ UNCHANGED <<main_vars, repository_vars,
                   config_file, include_youtube, include_blogs, include_transcripts,
                   config, enabled_channels, articles, errors,
                   all_videos, all_articles, all_errors,
                   sources_attempted, sources_succeeded, result,
                   fetch_videos_calls, fetch_articles_calls, call>>

\* line 174 and lines 74-77: _fetch_youtube_videos returns, its results are merged
ReturnYoutube ==
    /\ pc = "return_youtube"
    /\ all_videos' = all_videos \o videos
    /\ all_errors' = all_errors \o errors
    /\ sources_attempted' = sources_attempted + Len(enabled_channels)
    /\ sources_succeeded' = sources_succeeded + Len(enabled_channels) - Len(errors)
    /\ pc' = "blogs"
    /\ UNCHANGED <<main_vars, repository_vars,
                   config_file, include_youtube, include_blogs, include_transcripts,
                   config, enabled_channels, i, videos, articles, errors,
                   all_articles, result,
                   fetch_videos_calls, fetch_articles_calls, get_transcript_calls, call>>

\* lines 80-82 and 189-190: enter _fetch_blog_articles
BeginBlogs ==
    /\ pc = "blogs"
    /\ include_blogs
    /\ articles' = <<>>
    /\ errors' = <<>>
    /\ i' = 1
    /\ pc' = IF config.blogs = <<>> THEN "return_blogs" ELSE "fetch_blogs"
    /\ UNCHANGED <<main_vars, repository_vars,
                   config_file, include_youtube, include_blogs, include_transcripts,
                   config, enabled_channels, videos,
                   all_videos, all_articles, all_errors,
                   sources_attempted, sources_succeeded, result,
                   fetch_videos_calls, fetch_articles_calls, get_transcript_calls, call>>

\* line 80 when include_blogs is false
SkipBlogs ==
    /\ pc = "blogs"
    /\ ~include_blogs
    /\ pc' = "finalize"
    /\ UNCHANGED <<main_vars, repository_vars,
                   config_file, include_youtube, include_blogs, include_transcripts,
                   config, enabled_channels, i, videos, articles, errors,
                   all_videos, all_articles, all_errors,
                   sources_attempted, sources_succeeded, result,
                   fetch_videos_calls, fetch_articles_calls, get_transcript_calls, call>>

\* the loop header of line 192 after an iteration
NextBlog ==
    IF i < Len(config.blogs)
    THEN /\ i' = i + 1
         /\ pc' = "fetch_blogs"
    ELSE /\ i' = 1
         /\ pc' = "return_blogs"

\* lines 193-195 and 216-222: an iteration that fetches nothing (a disabled
\* blog, or an enabled blog without a scraper)
SkipBlog ==
    /\ pc = "fetch_blogs"
    /\ i <= Len(config.blogs)
    /\ ~BlogIsFetched(config.blogs[i])
    /\ LET acc == FetchBlogStep([articles |-> articles, errors |-> errors],
                                config.blogs[i], None)
       IN  /\ articles' = acc.articles
           /\ errors' = acc.errors
    /\ NextBlog
    /\ UNCHANGED <<main_vars, repository_vars,
                   config_file, include_youtube, include_blogs, include_transcripts,
                   config, enabled_channels, videos,
                   all_videos, all_articles, all_errors,
                   sources_attempted, sources_succeeded, result,
                   fetch_videos_calls, fetch_articles_calls, get_transcript_calls, call>>

\* lines 198-214: the iteration for the enabled "anthropic" blog
FetchBlog ==
    /\ pc = "fetch_blogs"
    /\ i <= Len(config.blogs)
    /\ BlogIsFetched(config.blogs[i])
    /\ \E answer \in FetchArticlesAnswers :
        LET acc == FetchBlogStep([articles |-> articles, errors |-> errors],
                                 config.blogs[i], answer)
        IN  /\ articles' = acc.articles
            /\ errors' = acc.errors
            /\ fetch_articles_calls' =
                 Append(fetch_articles_calls,
                        [blog_name |-> config.blogs[i].name, answer |-> answer,
                         timeout |-> RequestsGetTimeout])
    /\ NextBlog
    /\ UNCHANGED <<main_vars, repository_vars,
                   config_file, include_youtube, include_blogs, include_transcripts,
                   config, enabled_channels, videos,
                   all_videos, all_articles, all_errors,
                   sources_attempted, sources_succeeded, result,
                   fetch_videos_calls, get_transcript_calls, call>>

\* line 224 and lines 83-92: _fetch_blog_articles returns, its results are
\* merged and the blog sources are counted
ReturnBlogs ==
    /\ pc = "return_blogs"
    /\ all_articles' = all_articles \o articles
    /\ all_errors' = all_errors \o errors
    /\ LET counted == CountBlogSources(config.blogs, errors, 1,
                        [attempted |-> sources_attempted, succeeded |-> sources_succeeded])
       IN  /\ sources_attempted' = counted.attempted
           /\ sources_succeeded' = counted.succeeded
    /\ pc' = "finalize"
    /\ UNCHANGED <<main_vars, repository_vars,
                   config_file, include_youtube, include_blogs, include_transcripts,
                   config, enabled_channels, i, videos, articles, errors,
                   all_videos, result,
                   fetch_videos_calls, fetch_articles_calls, get_transcript_calls, call>>

\* lines 94-125: build the metadata (its validation may raise) and return
Finalize ==
    /\ pc = "finalize"
    /\ result' = BuildReport(all_videos, all_articles, all_errors,
                             sources_attempted, sources_succeeded)
    /\ pc' = "done"
    /\ UNCHANGED <<main_vars, repository_vars,
                   config_file, include_youtube, include_blogs, include_transcripts,
                   config, enabled_channels, i, videos, articles, errors,
                   all_videos, all_articles, all_errors,
                   sources_attempted, sources_succeeded,
                   fetch_videos_calls, fetch_articles_calls, get_transcript_calls, call>>

Next ==
    \/ LoadConfig
    \/ BeginYoutube
    \/ SkipYoutube
    \/ FetchChannel
    \/ FetchTranscript
    \/ ReturnYoutube
    \/ BeginBlogs
    \/ SkipBlogs
    \/ SkipBlog
    \/ FetchBlog
    \/ ReturnBlogs
    \/ Finalize

Spec == Init /\ [][Next]_vars

-----------------------------------------------------------------------------
(* The same code as functions of the configuration and of the capabilities'
   answers, used to compare a run with the run on another configuration *)

\* the channel loop from the k-th channel on; answers maps a channel id to
\* the answer of fetch_videos for it
RECURSIVE FetchChannels(_, _, _, _)
FetchChannels(channels, answers, k, acc) ==
    IF k > Len(channels) THEN acc
    ELSE FetchChannels(channels, answers, k + 1,
                       FetchChannelStep(acc, channels[k], answers[channels[k].id]))

\* the transcript loop from the k-th video on; apis maps a video id to the
\* answer of the transcript API for it
RECURSIVE EnrichAll(_, _, _)
EnrichAll(vs, apis, k) ==
    IF k > Len(vs) THEN vs
    ELSE EnrichAll(EnrichStep(vs, k, apis[vs[k].video_id]), apis, k + 1)

\* _fetch_youtube_videos(channels_config, fetch_transcripts)
fetch_youtube_videos(channels, fetch_transcripts, answers, apis) ==
    LET acc == FetchChannels(channels, answers, 1, [videos |-> <<>>, errors |-> <<>>])
    IN  IF AfterChannels(acc.videos, fetch_transcripts) = "fetch_transcripts"
        THEN [videos |-> EnrichAll(acc.videos, apis, 1), errors |-> acc.errors]
        ELSE acc

\* the blog loop from the k-th blog on; answers maps a blog name to the
\* answer of its scraper
RECURSIVE FetchBlogs(_, _, _, _)
FetchBlogs(blogs, answers, k, acc) ==
    IF k > Len(blogs) THEN acc
    ELSE FetchBlogs(blogs, answers, k + 1,
                    FetchBlogStep(acc, blogs[k],
                                  IF BlogIsFetched(blogs[k]) THEN answers[blogs[k].name]
                                  ELSE None))

\* _fetch_blog_articles(blogs_config)
fetch_blog_articles(blogs, answers) ==
    FetchBlogs(blogs, answers, 1, [articles |-> <<>>, errors |-> <<>>])

\* aggregate_content(...) from line 56 on, for a loaded configuration cfg;
\* env holds the answers of the three capabilities
aggregate_content(cfg, with_youtube, with_blogs, with_transcripts, env) ==
    LET yt_fetched == YoutubeIsFetched(cfg, with_youtube)
        channels == EnabledChannels(cfg)
        yt == IF yt_fetched
              THEN fetch_youtube_videos(channels, with_transcripts,
                                        env.videos, env.transcripts)
              ELSE [videos |-> <<>>, errors |-> <<>>]
        after_yt == IF yt_fetched
                    THEN [attempted |-> Len(channels),
                          succeeded |-> Len(channels) - Len(yt.errors)]
                    ELSE [attempted |-> 0, succeeded |-> 0]
        bl == IF with_blogs
              THEN fetch_blog_articles(cfg.blogs, env.articles)
              ELSE [articles |-> <<>>, errors |-> <<>>]
        counted == IF with_blogs
                   THEN CountBlogSources(cfg.blogs, bl.errors, 1, after_yt)
                   ELSE after_yt
    IN  BuildReport(yt.videos, bl.articles, yt.errors \o bl.errors,
                    counted.attempted, counted.succeeded)

\* the answers the capabilities gave in this run, by source
LoggedEnv ==
    [videos |->
        [id \in {c.channel_id : c \in Range(fetch_videos_calls)} |->
            (CHOOSE c \in Range(fetch_videos_calls) : c.channel_id = id).answer],
     articles |->
        [n \in {c.blog_name : c \in Range(fetch_articles_calls)} |->
            (CHOOSE c \in Range(fetch_articles_calls) : c.blog_name = n).answer],
     transcripts |->
        [id \in {c.video_id : c \in Range(get_transcript_calls)} |->
            (CHOOSE c \in Range(get_transcript_calls) : c.video_id = id).api]]

\* aggregate_content returned a report / this is the report
Returned == pc = "done" /\ ~result.raised
Report == result.value

\* The step-by-step run computes what the function computes.
RunIsFunctionOfAnswers ==
    (pc = "done" /\ config_file.status = "ok") =>
        result = aggregate_content(config, include_youtube, include_blogs,
                                   include_transcripts, LoggedEnv)

-----------------------------------------------------------------------------
(* Claims about the report of aggregate_content *)

\* the configuration without one channel / without one blog aggregator
WithoutChannel(cfg, id) ==
    [cfg EXCEPT !.youtube.channels = SelectSeq(@, LAMBDA ch : ch.id # id)]
WithoutBlog(cfg, name) ==
    [cfg EXCEPT !.blogs = SelectSeq(@, LAMBDA b : b.name # name)]

\* the sources whose fetch raised in this run
FailedChannels == {c.channel_id : c \in {d \in Range(fetch_videos_calls) : d.answer.raised}}
FailedBlogs == {c.blog_name : c \in {d \in Range(fetch_articles_calls) : d.answer.raised}}
FailedFetches ==
    Cardinality({k \in DOMAIN fetch_videos_calls : fetch_videos_calls[k].answer.raised})
    + Cardinality({k \in DOMAIN fetch_articles_calls : fetch_articles_calls[k].answer.raised})

\* the run on cfg under the answers of this run
RunOn(cfg) ==
    aggregate_content(cfg, include_youtube, include_blogs, include_transcripts, LoggedEnv)

\* two outcomes are reports that differ at most in the error list and in
\* sources_attempted
SameButErrorsAndAttempted(r1, r2) ==
    /\ ~r1.raised /\ ~r2.raised
    /\ r1.value.videos = r2.value.videos
    /\ r1.value.articles = r2.value.articles
    /\ r1.value.metadata.total_items = r2.value.metadata.total_items
    /\ r1.value.metadata.videos_count = r2.value.metadata.videos_count
    /\ r1.value.metadata.articles_count = r2.value.metadata.articles_count
    /\ r1.value.metadata.sources_succeeded = r2.value.metadata.sources_succeeded

\* C1: for every source whose fetch failed in a run that returned a report,
\* the run on the configuration without that source (same answers of the other
\* sources) returns a report with the same videos, articles and counters;
\* only the error list and sources_attempted differ.
C1_FailingSourceIsolated ==
    Returned =>
        /\ \A id \in FailedChannels :
              SameButErrorsAndAttempted(result, RunOn(WithoutChannel(config, id)))
        /\ \A n \in FailedBlogs :
              SameButErrorsAndAttempted(result, RunOn(WithoutBlog(config, n)))

\* C2: whenever the configuration loads, aggregate_content returns a report
\* (it raises nothing), and the report's error list has one entry per failed
\* source fetch.
C2_ReturnsReportWhenConfigLoads ==
    (pc = "done" /\ config_file.status = "ok") =>
        /\ ~result.raised
        /\ Len(Report.metadata.errors) = FailedFetches

\* C3: in every returned report,
\* sources_succeeded = sources_attempted - len(metadata.errors).
C3_SucceededIsAttemptedMinusErrors ==
    Returned =>
        Report.metadata.sources_succeeded =
            Report.metadata.sources_attempted - Len(Report.metadata.errors)

\* C4: in every returned report, total_items = len(videos) + len(articles),
\* videos_count = len(videos) and articles_count = len(articles).
C4_ItemCountsMatchLists ==
    Returned =>
        /\ Report.metadata.total_items = Len(Report.videos) + Len(Report.articles)
        /\ Report.metadata.videos_count = Len(Report.videos)
        /\ Report.metadata.articles_count = Len(Report.articles)

\* a report with videos and articles, from a run in which a fetch failed
C4_Witness ==
    /\ Returned
    /\ Len(Report.videos) >= 2
    /\ Len(Report.articles) >= 2
    /\ Len(Report.metadata.errors) >= 1


\* how often each capability was invoked for one source
VideoFetchesOf(id) ==
    Cardinality({k \in DOMAIN fetch_videos_calls : fetch_videos_calls[k].channel_id = id})
ArticleFetchesOf(name) ==
    Cardinality({k \in DOMAIN fetch_articles_calls : fetch_articles_calls[k].blog_name = name})
Fetches == Len(fetch_videos_calls) + Len(fetch_articles_calls)

\* the channels and blog aggregators of the loaded configuration that are
\* enabled and belong to a category the caller included
IncludedChannels ==
    IF include_youtube /\ config.youtube.has_channels
    THEN {k \in DOMAIN config.youtube.channels : config.youtube.channels[k].enabled}
    ELSE {}
IncludedBlogs ==
    IF include_blogs
    THEN {k \in DOMAIN config.blogs : config.blogs[k].config.enabled}
    ELSE {}
\* the included blog aggregators the orchestrator has a scraper for
ScrapedBlogs == {k \in IncludedBlogs : config.blogs[k].name = S_anthropic}

RunEnded == pc = "done" /\ config_file.status = "ok"

WithoutDisabled(cfg) ==
    [settings |-> cfg.settings,
     youtube |-> [cfg.youtube EXCEPT !.channels = SelectSeq(@, LAMBDA ch : ch.enabled)],
     blogs |-> LET on == SelectSeq(cfg.blogs, LAMBDA b : b.config.enabled)
               IN  [k \in DOMAIN on |->
                      [on[k] EXCEPT !.config.sources = SelectSeq(@, LAMBDA src : src.enabled)]]]

\* no enabled flag of the configuration is true
AllDisabled(cfg) ==
    /\ \A k \in DOMAIN cfg.youtube.channels : ~cfg.youtube.channels[k].enabled
    /\ \A k \in DOMAIN cfg.blogs :
          /\ ~cfg.blogs[k].config.enabled
          /\ \A n \in DOMAIN cfg.blogs[k].config.sources :
                ~cfg.blogs[k].config.sources[n].enabled

\* AggregationMetadata.has_errors
has_errors(metadata) == Len(metadata.errors) > 0
\* Python floats that are quotients of small ints, kept as the exact
\* fraction num/den with den > 0
Float(n) == [num |-> n, den |-> 1]
\* x / y for non-negative ints: a float, or ZeroDivisionError
TrueDiv(x, y) ==
    IF y = 0 THEN Raise("ZeroDivisionError", <<>>) ELSE Return([num |-> x, den |-> y])
FloatTimes(f, n) == [num |-> f.num * n, den |-> f.den]
FloatEq(f, g) == f.num * g.den = g.num * f.den
FloatLe(f, g) == f.num * g.den <= g.num * f.den

\* success_rate without the test for sources_attempted == 0
success_rate_unguarded(metadata) ==
    LET quotient == TrueDiv(metadata.sources_succeeded, metadata.sources_attempted)
    IN  IF quotient.raised THEN quotient
        ELSE Return(FloatTimes(quotient.value, 100))

\* success_rate that returns the quotient itself
success_rate_as_quotient(metadata) ==
    IF metadata.sources_attempted = 0
    THEN Return(Float(0))
    ELSE TrueDiv(metadata.sources_succeeded, metadata.sources_attempted)

\* AggregationMetadata.success_rate
success_rate(metadata) ==
    IF metadata.sources_attempted = 0
    THEN Return(Float(0))
    ELSE LET quotient == TrueDiv(metadata.sources_succeeded, metadata.sources_attempted)
         IN  IF quotient.raised THEN quotient
             ELSE Return(FloatTimes(quotient.value, 100))

\* C6: disabled sources are never fetched and add nothing to the counters: the
\* report has the counters of the run on the configuration without its
\* disabled channels, aggregators and source entries; with every source
\* disabled the report is empty, with success_rate 0.0 and no errors.
C6_DisabledSourcesAddNothing ==
    Returned =>
        /\ \A k \in DOMAIN config.youtube.channels :
              ~config.youtube.channels[k].enabled =>
                  VideoFetchesOf(config.youtube.channels[k].id) = 0
        /\ \A k \in DOMAIN config.blogs :
              ~config.blogs[k].config.enabled =>
                  ArticleFetchesOf(config.blogs[k].name) = 0
        /\ LET other == RunOn(WithoutDisabled(config))
           IN  /\ ~other.raised
               /\ other.value.metadata.sources_attempted = Report.metadata.sources_attempted
               /\ other.value.metadata.sources_succeeded = Report.metadata.sources_succeeded
        /\ AllDisabled(config) =>
              /\ Report.metadata.total_items = 0
              /\ Report.metadata.sources_attempted = 0
              /\ FloatEq(success_rate(Report.metadata).value, Float(0))
              /\ ~has_errors(Report.metadata)

\* C7: sources_attempted is the number of enabled channels plus the number of
\* enabled blog aggregators, and sources_succeeded is that number minus the
\* number of failed fetches.
C7_AttemptedCountsChannelsAndAggregators ==
    Returned =>
        /\ Report.metadata.sources_attempted =
              Cardinality(IncludedChannels) + Cardinality(IncludedBlogs)
        /\ Report.metadata.sources_succeeded =
              Cardinality(IncludedChannels) + Cardinality(IncludedBlogs) - FailedFetches

-----------------------------------------------------------------------------
(* Claims about the enrichment of the videos with transcripts *)

\* the videos the channel fetches of this run returned, in call order
RECURSIVE ConcatAnswers(_)
ConcatAnswers(calls) ==
    IF calls = <<>> THEN <<>>
    ELSE (IF Head(calls).answer.raised THEN <<>> ELSE Head(calls).answer.value)
         \o ConcatAnswers(Tail(calls))
FetchedVideos == ConcatAnswers(fetch_videos_calls)

\* the answers of the transcript API that were failures / transcripts
FailedTranscripts == {k \in DOMAIN get_transcript_calls : get_transcript_calls[k].api.raised}
GoodTranscripts == {k \in DOMAIN get_transcript_calls : ~get_transcript_calls[k].api.raised}

\* C8: during and after the enrichment, the video list of
\* _fetch_youtube_videos is the list of fetched videos (same length, same
\* video_ids in the same order) up to the transcript field of each video.
C8_EnrichmentKeepsVideos ==
    pc \in {"fetch_transcripts", "return_youtube"} =>
        /\ Len(videos) = Len(FetchedVideos)
        /\ \A k \in DOMAIN videos :
              [videos[k] EXCEPT !.transcript = None] = FetchedVideos[k]

\* the enrichment of two videos is over; one transcript fetch failed and one
\* succeeded
C8_Witness ==
    /\ pc = "return_youtube"
    /\ Len(videos) >= 2
    /\ Len(get_transcript_calls) = Len(videos)
    /\ FailedTranscripts # {}
    /\ GoodTranscripts # {}

\* C10: after a run with transcript fetching enabled every video of the
\* report carries a transcript, whatever the transcript API answered, and the
\* report holds all the fetched videos.
C10_EveryVideoHasTranscript ==
    (Returned /\ include_transcripts) =>
        /\ Len(Report.videos) = Len(FetchedVideos)
        /\ \A k \in DOMAIN Report.videos : Report.videos[k].transcript # None

-----------------------------------------------------------------------------
(* get_transcript called directly *)

S_abc12345678 == <<"a","b","c","1","2","3","4","5","6","7","8">>
S_kFpLzCVLA20 == <<"k","F","p","L","z","C","V","L","A","2","0">>
\* the video ids of the explored calls: ids of the 11-character form every
\* caller passes
S_dQw4w9WgXcQ == <<"d","Q","w","4","w","9","W","g","X","c","Q">>
DirectVideoIds == {S_abc12345678, S_kFpLzCVLA20, S_dQw4w9WgXcQ}

\* the answers of YouTubeTranscriptApi().fetch(video_id): a failure of one of
\* the three named classes or of another class, or a list of segment texts
\* (none, one, two, one of blanks only, one with a leading blank)
SegmentLists ==
    {<<>>, <<S_hi>>, <<S_hi, S_yo>>, << <<" ">> >>, << <<" ", "h", "i">>, S_yo >>}
TranscriptApiAnswers ==
    {Raise(c, t) : c \in TranscriptUnavailableErrors \cup {"Exception"}, t \in ExcTexts}
    \cup {Return(segments) : segments \in SegmentLists}

InitTranscript ==
    /\ pc = "call"
    /\ call \in [video_id : DirectVideoIds, return_model : BOOLEAN, api : TranscriptApiAnswers]
    /\ result = None
    /\ config_file = None /\ config = None
    /\ include_youtube = FALSE /\ include_blogs = FALSE /\ include_transcripts = FALSE
    /\ enabled_channels = <<>> /\ i = 0
    /\ videos = <<>> /\ articles = <<>> /\ errors = <<>>
    /\ all_videos = <<>> /\ all_articles = <<>> /\ all_errors = <<>>
    /\ sources_attempted = 0 /\ sources_succeeded = 0
    /\ fetch_videos_calls = <<>> /\ fetch_articles_calls = <<>>
    /\ get_transcript_calls = <<>>
    /\ NoMain
    /\ NoRepository

\* one call get_transcript(video_id, return_model)
CallGetTranscript ==
    /\ pc = "call"
    /\ result' = get_transcript(call.video_id, call.return_model, call.api)
    /\ pc' = "returned"
    /\ UNCHANGED <<main_vars, repository_vars,
                   config_file, include_youtube, include_blogs, include_transcripts,
                   config, enabled_channels, i, videos, articles, errors,
                   all_videos, all_articles, all_errors,
                   sources_attempted, sources_succeeded,
                   fetch_videos_calls, fetch_articles_calls, get_transcript_calls, call>>

NextTranscript == CallGetTranscript

SpecTranscript == InitTranscript /\ [][NextTranscript]_vars

-----------------------------------------------------------------------------
(* app/database/repository.py, app/database/models.py *)

\* most items in each of the two lists handed to save_all
MaxSaved == 2

\* obj.name on a pydantic model: the field, or AttributeError
GetAttr(obj, name) ==
    IF name \in DOMAIN obj THEN Return(obj[name]) ELSE Raise("AttributeError", name)

S_title_1 == <<"T", "1">>
S_title_2 == <<"T", "2">>
S_url_1 == <<"u", "r", "l", "1">>
S_url_2 == <<"u", "r", "l", "2">>

\* the VideoData handed to the repository: two video ids, and two videos
\* that share a video id but differ in their title
SavedVideo(video_id, title) ==
    [video_id |-> video_id, title |-> title, transcript |-> None]
VideoItems ==
    {SavedVideo(S_abc12345678, S_title_1), SavedVideo(S_abc12345678, S_title_2),
     SavedVideo(S_kFpLzCVLA20, S_title_1)}

\* the ArticleData handed to the repository, with the fields the class
\* declares: two urls, and two articles that share a url
SavedArticle(url, title) ==
    [url |-> url, title |-> title, subjects |-> <<>>]
ArticleItems ==
    {SavedArticle(S_url_1, S_title_1), SavedArticle(S_url_1, S_title_2),
     SavedArticle(S_url_2, S_title_1)}

ListsOf(items, n) == UNION {[1..m -> items] : m \in 0..n}

\* what the database does with a statement: it executes it, or the
\* connection fails (engine.connect / execute / commit raise)
S_connection_refused ==
    <<"c","o","n","n","e","c","t","i","o","n"," ","r","e","f","u","s","e","d">>
DbAnswers == {Return("ok"), Raise("OperationalError", S_connection_refused)}

\* the rows of a table whose unique column `key` holds `value`
RowsWithKey(table, key, value) == {k \in DOMAIN table : table[k][key] = value}

\* INSERT ... DO UPDATE in place of DO NOTHING: the stored row is replaced
InsertOnConflictDoUpdate(table, key, row) ==
    IF RowsWithKey(table, key, row[key]) # {}
    THEN [table |-> [k \in DOMAIN table |->
                        IF table[k][key] = row[key] THEN row ELSE table[k]],
          rowcount |-> 1]
    ELSE [table |-> Append(table, row), rowcount |-> 1]

\* INSERT INTO <table> ... ON CONFLICT (<key>) DO NOTHING RETURNING id
InsertOnConflictDoNothing(table, key, row) ==
    IF RowsWithKey(table, key, row[key]) # {}
    THEN [table |-> table, rowcount |-> 0]
    ELSE [table |-> Append(table, row), rowcount |-> 1]

\* save_video(video) on the table `videos`; `db` is the database's answer.
\* The result is the table afterwards and the returned bool.
save_video(video, table, db) ==
    LET transcript_text ==
            IF video.transcript # None /\ video.transcript.is_available
            THEN video.transcript.transcript_text
            ELSE None
        row == [video_id |-> video.video_id, title |-> video.title,
                transcript_text |-> transcript_text]
        tried == IF db.raised THEN db
                 ELSE Return(InsertOnConflictDoNothing(table, "video_id", row))
    IN  IF tried.raised
        THEN [table |-> table, returned |-> FALSE]
        ELSE [table |-> tried.value.table, returned |-> tried.value.rowcount > 0]

\* save_article(article) on the table `articles`: the parameters of the
\* statement are built before it is executed, and building them reads
\* article.subject_tags
save_article(article, table, db) ==
    LET subject_tags == GetAttr(article, "subject_tags")
        row == [url |-> article.url, title |-> article.title,
                subjects |-> subject_tags.value]
        tried == IF db.raised THEN db
                 ELSE IF subject_tags.raised THEN subject_tags
                 ELSE Return(InsertOnConflictDoNothing(table, "url", row))
    IN  IF tried.raised
        THEN [table |-> table, returned |-> FALSE]
        ELSE [table |-> tried.value.table, returned |-> tried.value.rowcount > 0]

\* the tables before a call of save_all: empty, or with the video row an
\* earlier run stored
EarlierVideoRow ==
    [video_id |-> S_abc12345678, title |-> S_title_2, transcript_text |-> None]
InitialVideoTables == {<<>>, <<EarlierVideoRow>>}

InitRepository ==
    /\ pc = "save_videos"
    /\ call \in [videos : ListsOf(VideoItems, MaxSaved),
                 articles : ListsOf(ArticleItems, MaxSaved)]
    /\ videos_table \in InitialVideoTables
    /\ articles_table = <<>>
    /\ v_saved = 0 /\ v_skipped = 0 /\ a_saved = 0 /\ a_skipped = 0
    /\ save_calls = <<>>
    /\ i = 1
    /\ result = None
    /\ config_file = None /\ config = None
    /\ include_youtube = FALSE /\ include_blogs = FALSE /\ include_transcripts = FALSE
    /\ enabled_channels = <<>>
    /\ videos = <<>> /\ articles = <<>> /\ errors = <<>>
    /\ all_videos = <<>> /\ all_articles = <<>> /\ all_errors = <<>>
    /\ sources_attempted = 0 /\ sources_succeeded = 0
    /\ fetch_videos_calls = <<>> /\ fetch_articles_calls = <<>>
    /\ get_transcript_calls = <<>>
    /\ NoMain

aggregation_vars ==
    <<config_file, include_youtube, include_blogs, include_transcripts,
      config, enabled_channels, videos, articles, errors,
      all_videos, all_articles, all_errors, sources_attempted, sources_succeeded,
      fetch_videos_calls, fetch_articles_calls, get_transcript_calls>>

\* the entry of save_calls for one invocation
SaveCall(kind, item, key, db, table, saved) ==
    [kind |-> kind, item |-> item, key |-> key, db |-> db,
     table_before |-> table, table_after |-> saved.table,
     returned |-> saved.returned]

\* lines 112-116: one iteration of `for video in videos`
SaveVideo ==
    /\ pc = "save_videos"
    /\ i <= Len(call.videos)
    /\ \E db \in DbAnswers :
         LET video == call.videos[i]
             saved == save_video(video, videos_table, db)
         IN  /\ videos_table' = saved.table
             /\ IF saved.returned
                THEN v_saved' = v_saved + 1 /\ UNCHANGED v_skipped
                ELSE v_skipped' = v_skipped + 1 /\ UNCHANGED v_saved
             /\ save_calls' = Append(save_calls,
                    SaveCall("video", video, video.video_id, db, videos_table, saved))
    /\ i' = i + 1
    /\ UNCHANGED <<pc, call, result, articles_table, a_saved, a_skipped>>
    /\ UNCHANGED <<main_vars, aggregation_vars>>

\* lines 118-119: the video loop is over
EndSaveVideos ==
    /\ pc = "save_videos"
    /\ i > Len(call.videos)
    /\ a_saved' = 0 /\ a_skipped' = 0
    /\ i' = 1
    /\ pc' = "save_articles"
    /\ UNCHANGED <<call, result, videos_table, articles_table, v_saved, v_skipped,
                   save_calls>>
    /\ UNCHANGED <<main_vars, aggregation_vars>>

\* lines 121-125: one iteration of `for article in articles`
SaveArticle ==
    /\ pc = "save_articles"
    /\ i <= Len(call.articles)
    /\ \E db \in DbAnswers :
         LET article == call.articles[i]
             saved == save_article(article, articles_table, db)
         IN  /\ articles_table' = saved.table
             /\ IF saved.returned
                THEN a_saved' = a_saved + 1 /\ UNCHANGED a_skipped
                ELSE a_skipped' = a_skipped + 1 /\ UNCHANGED a_saved
             /\ save_calls' = Append(save_calls,
                    SaveCall("article", article, article.url, db, articles_table, saved))
    /\ i' = i + 1
    /\ UNCHANGED <<pc, call, result, videos_table, v_saved, v_skipped>>
    /\ UNCHANGED <<main_vars, aggregation_vars>>

\* lines 127-134: save_all returns its statistics
ReturnStats ==
    /\ pc = "save_articles"
    /\ i > Len(call.articles)
    /\ result' = Return([videos_saved |-> v_saved,
                         videos_skipped |-> v_skipped,
                         articles_saved |-> a_saved,
                         articles_skipped |-> a_skipped,
                         total_saved |-> v_saved + a_saved,
                         total_skipped |-> v_skipped + a_skipped])
    /\ pc' = "saved"
    /\ UNCHANGED <<call, i, repository_vars>>
    /\ UNCHANGED <<main_vars, aggregation_vars>>

NextRepository == SaveVideo \/ EndSaveVideos \/ SaveArticle \/ ReturnStats

SpecRepository == InitRepository /\ [][NextRepository]_vars

-----------------------------------------------------------------------------
(* Claims about the repository *)

\* the database executed the statement of this invocation, had it got one
WorkingStore(c) == ~c.db.raised
\* the unique column of the table an invocation writes to
KeyColumn(c) == IF c.kind = "video" THEN "video_id" ELSE "url"
\* the natural key of the invocation was / is stored
StoredBefore(c) == RowsWithKey(c.table_before, KeyColumn(c), c.key) # {}
StoredAfter(c) == RowsWithKey(c.table_after, KeyColumn(c), c.key) # {}
\* the invocation added a row
CreatedRow(c) == Len(c.table_after) > Len(c.table_before)
NoTwoRowsShareKey(table, key) ==
    \A k1, k2 \in DOMAIN table : table[k1][key] = table[k2][key] => k1 = k2
SaveAllReturned == pc = "saved"
Stats == result.value

\* C11: a new item saved twice in a row with a working store is reported
\* inserted (True), then duplicate (False), and then has exactly one row; no
\* table ever holds two rows with the same natural key.
C11_SecondSaveIsDuplicate ==
    /\ NoTwoRowsShareKey(videos_table, "video_id")
    /\ NoTwoRowsShareKey(articles_table, "url")
    /\ \A k \in 1..(Len(save_calls) - 1) :
          LET first == save_calls[k]
              second == save_calls[k + 1]
          IN  (/\ first.kind = second.kind
               /\ first.item = second.item
               /\ ~StoredBefore(first)
               /\ WorkingStore(first) /\ WorkingStore(second)) =>
                  /\ first.returned = TRUE
                  /\ second.returned = FALSE
                  /\ Cardinality(RowsWithKey(second.table_after, KeyColumn(second),
                                             second.key)) = 1

\* C12: a save whose natural key is already stored leaves the table as it
\* was, whatever the other fields of the new item, and returns False (the
\* duplicate report) without raising.
C12_FirstWriteWins ==
    \A k \in DOMAIN save_calls :
        (StoredBefore(save_calls[k]) /\ WorkingStore(save_calls[k])) =>
            /\ save_calls[k].table_after = save_calls[k].table_before
            /\ save_calls[k].returned = FALSE

\* a video was saved whose video_id was stored with another title
C12_Witness ==
    \E k \in DOMAIN save_calls :
        LET c == save_calls[k]
        IN  /\ c.kind = "video"
            /\ WorkingStore(c)
            /\ \E r \in RowsWithKey(c.table_before, "video_id", c.key) :
                  c.table_before[r].title # c.item.title
            /\ c.returned = FALSE
            /\ c.table_after = c.table_before

\* C13: the statistics of save_all add up, total_saved is the number of
\* rows created, and two articles with one URL saved into an empty store
\* give total_saved = 1 and total_skipped = 1.
C13_SaveAllCounts ==
    SaveAllReturned =>
        /\ Stats.total_saved =
              Cardinality({k \in DOMAIN save_calls : CreatedRow(save_calls[k])})
        /\ Stats.total_saved + Stats.total_skipped = Len(call.videos) + Len(call.articles)
        /\ Stats.videos_saved + Stats.videos_skipped = Len(call.videos)
        /\ Stats.articles_saved + Stats.articles_skipped = Len(call.articles)
        /\ (/\ call.videos = <<>>
            /\ Len(call.articles) = 2
            /\ call.articles[1].url = call.articles[2].url
            /\ \A k \in DOMAIN save_calls : WorkingStore(save_calls[k])) =>
                  /\ Stats.total_saved = 1
                  /\ Stats.total_skipped = 1

\* the items of save_all's two lists, in the order they are saved
SavedItems == call.videos \o call.articles

\* C14: save_all never raises and attempts every item once, in order; an
\* item with a new key that comes after a storage failure is inserted when
\* the store works for it.
C14_FailureDoesNotStopSaving ==
    SaveAllReturned =>
        /\ ~result.raised
        /\ Len(save_calls) = Len(SavedItems)
        /\ \A k \in DOMAIN save_calls : save_calls[k].item = SavedItems[k]
        /\ \A k \in DOMAIN save_calls :
              (/\ \E j \in 1..(k - 1) : ~WorkingStore(save_calls[j])
               /\ ~StoredBefore(save_calls[k])
               /\ WorkingStore(save_calls[k])) =>
                  /\ CreatedRow(save_calls[k])
                  /\ StoredAfter(save_calls[k])

\* the invocations that met a stored key / a storage failure
Duplicates == {k \in DOMAIN save_calls :
                  WorkingStore(save_calls[k]) /\ StoredBefore(save_calls[k])}
Failures == {k \in DOMAIN save_calls : ~WorkingStore(save_calls[k])}

\* C15: a save that hit a storage failure is told apart from a duplicate: it
\* does not return what a duplicate returns, and it is not counted among
\* the skipped items.
C15_FailedIsNotDuplicate ==
    /\ \A k \in Failures : save_calls[k].returned # FALSE
    /\ SaveAllReturned =>
          Stats.total_skipped = Cardinality(DOMAIN save_calls \ Failures)
                                - Stats.total_saved

-----------------------------------------------------------------------------
(* app/models/aggregated_content.py: the properties of AggregationMetadata *)

\* largest value of the two source counters of the explored metadata
MaxCounter == 3

S_error_1 == <<"e", "r", "r", "o", "r", " ", "1">>

\* the arguments AggregationMetadata is constructed with: any two counters,
\* a negative one included, and no or one error message
MetadataArguments ==
    [sources_attempted : -1..MaxCounter,
     sources_succeeded : -1..MaxCounter,
     errors : {<<>>, <<S_error_1>>}]

InitMetadata ==
    /\ pc = "construct"
    /\ call \in MetadataArguments
    /\ result = None
    /\ i = 0
    /\ config_file = None /\ config = None
    /\ include_youtube = FALSE /\ include_blogs = FALSE /\ include_transcripts = FALSE
    /\ enabled_channels = <<>>
    /\ videos = <<>> /\ articles = <<>> /\ errors = <<>>
    /\ all_videos = <<>> /\ all_articles = <<>> /\ all_errors = <<>>
    /\ sources_attempted = 0 /\ sources_succeeded = 0
    /\ fetch_videos_calls = <<>> /\ fetch_articles_calls = <<>>
    /\ get_transcript_calls = <<>>
    /\ NoMain
    /\ NoRepository

\* AggregationMetadata(...): the validation accepts or rejects the arguments
ConstructMetadata ==
    /\ pc = "construct"
    /\ result' = AggregationMetadata(0, 0, 0, call.errors,
                                     call.sources_attempted, call.sources_succeeded)
    /\ pc' = IF result'.raised THEN "rejected" ELSE "constructed"
    /\ UNCHANGED <<call, i, main_vars, repository_vars, aggregation_vars>>

\* metadata.success_rate and metadata.has_errors are read
ReadProperties ==
    /\ pc = "constructed"
    /\ result' = Return([metadata |-> result.value,
                         success_rate |-> success_rate(result.value),
                         has_errors |-> has_errors(result.value)])
    /\ pc' = "read"
    /\ UNCHANGED <<call, i, main_vars, repository_vars, aggregation_vars>>

NextMetadata == ConstructMetadata \/ ReadProperties

SpecMetadata == InitMetadata /\ [][NextMetadata]_vars

\* C16: reading success_rate raises nothing, and for a metadata value with
\* sources_attempted = 0 it is 0.0, whatever the other fields are.
C16_SuccessRateIsTotal ==
    pc = "read" =>
        /\ ~result.value.success_rate.raised
        /\ result.value.metadata.sources_attempted = 0 =>
              FloatEq(result.value.success_rate.value, Float(0))

\* success_rate was read from a metadata value with no attempted source and
\* a positive sources_succeeded
C16_Witness ==
    /\ pc = "read"
    /\ result.value.metadata.sources_attempted = 0
    /\ result.value.metadata.sources_succeeded > 0
    /\ ~result.value.success_rate.raised

\* success_rate of the report of a run
RateOfReport == success_rate(Report.metadata).value

\* C17 as claimed: in a report with sources_attempted > 0, success_rate is
\* the fraction sources_succeeded / sources_attempted, between 0 and 1, and
\* 1 exactly when every attempted source succeeded.
C17_SuccessRateIsFraction ==
    (Returned /\ Report.metadata.sources_attempted > 0) =>
        /\ FloatEq(RateOfReport, [num |-> Report.metadata.sources_succeeded,
                                  den |-> Report.metadata.sources_attempted])
        /\ FloatLe(Float(0), RateOfReport)
        /\ FloatLe(RateOfReport, Float(1))
        /\ FloatEq(RateOfReport, Float(1)) <=>
              Report.metadata.sources_succeeded = Report.metadata.sources_attempted

\* C17 as amended: in a report with sources_attempted > 0, success_rate is
\* the percentage 100 * sources_succeeded / sources_attempted, between 0 and
\* 100, and 100 exactly when sources_succeeded = sources_attempted.
C17_SuccessRateIsPercentage ==
    (Returned /\ Report.metadata.sources_attempted > 0) =>
        /\ ~success_rate(Report.metadata).raised
        /\ FloatEq(RateOfReport, [num |-> 100 * Report.metadata.sources_succeeded,
                                  den |-> Report.metadata.sources_attempted])
        /\ FloatLe(Float(0), RateOfReport)
        /\ FloatLe(RateOfReport, Float(100))
        /\ FloatEq(RateOfReport, Float(100)) <=>
              Report.metadata.sources_succeeded = Report.metadata.sources_attempted

\* a report of two attempted sources of which one succeeded: the rate is 50
C17_Witness ==
    /\ Returned
    /\ Report.metadata.sources_attempted = 2
    /\ Report.metadata.sources_succeeded = 1
    /\ FloatEq(RateOfReport, Float(50))

-----------------------------------------------------------------------------
(* Claims about a configuration that cannot be loaded, and about timeouts *)

\* the exception load_sources_config raises for what it finds
ConfigErrorClass ==
    CASE config_file.status = "missing"   -> "FileNotFoundError"
      [] config_file.status = "malformed" -> "YAMLError"
      [] OTHER                            -> "ValidationError"

\* C19: when the configuration cannot be loaded, no source fetch and no
\* transcript fetch is ever invoked, and aggregate_content ends by raising
\* the loader's exception: it returns no report.
C19_ConfigFailurePropagates ==
    config_file.status # "ok" =>
        /\ fetch_videos_calls = <<>>
        /\ fetch_articles_calls = <<>>
        /\ get_transcript_calls = <<>>
        /\ pc = "done" =>
              /\ result.raised
              /\ result.exc.cls = ConfigErrorClass
              /\ result.value = None

\* aggregate_content was called with every category included, found no
\* configuration file and has ended
C19_Witness ==
    /\ pc = "done"
    /\ config_file.status = "missing"
    /\ include_youtube /\ include_blogs /\ include_transcripts
    /\ result.raised
    /\ fetch_videos_calls = <<>> /\ fetch_articles_calls = <<>>

\* the time limit of this fetch is the configured fetch_timeout_seconds
BoundedByConfiguredTimeout(c) ==
    /\ c.timeout.bounded
    /\ c.timeout.seconds = config.settings.fetch_timeout_seconds

\* C20: every fetch runs under the configured settings.fetch_timeout_seconds,
\* and a fetch that fails (by timing out or otherwise) leaves one error
\* while every enabled channel is still fetched.
C20_FetchBoundedByConfiguredTimeout ==
    /\ \A k \in DOMAIN fetch_videos_calls :
          BoundedByConfiguredTimeout(fetch_videos_calls[k])
    /\ \A k \in DOMAIN fetch_articles_calls :
          BoundedByConfiguredTimeout(fetch_articles_calls[k])
    /\ RunEnded =>
          /\ Len(all_errors) = FailedFetches
          /\ \A k \in IncludedChannels :
                VideoFetchesOf(config.youtube.channels[k].id) = 1

-----------------------------------------------------------------------------
(* scripts/run_aggregation.py and app/__main__.py: the two main() functions. *)
(* Printing the summary and writing the JSON output are taken to succeed.   *)

EntryPoints == {"run_aggregation", "app"}
\* the flags argparse hands to main()
ArgsOf(entry) ==
    IF entry = "run_aggregation"
    THEN [youtube_only : BOOLEAN, blogs_only : BOOLEAN]
    ELSE [no_youtube : BOOLEAN, no_blogs : BOOLEAN, no_transcripts : BOOLEAN]

\* the configuration files of the explored command lines: none, a broken
\* one, or one with no or one channel and no or one blog aggregator
CliConfigFiles ==
    {[status |-> s, data |-> None] : s \in {"missing", "malformed", "invalid"}} \cup
    {[status |-> "ok", data |-> c] :
        c \in [youtube : {y \in YoutubeConfigs :
                              \A k \in DOMAIN y.channels : k = 1 /\ y.channels[k].enabled},
               blogs : {d \in BlogDicts :
                              \A k \in DOMAIN d :
                                  /\ k = 1
                                  /\ d[k].config.enabled
                                  /\ d[k].config.sources = <<[enabled |-> TRUE]>>},
               settings : {SettingsConfig(DefaultFetchTimeout)}]}

InitCli ==
    /\ pc = "main"
    /\ entry_point \in EntryPoints
    /\ args \in ArgsOf(entry_point)
    /\ exit_code = None
    /\ config_file \in CliConfigFiles
    /\ include_youtube = FALSE /\ include_blogs = FALSE /\ include_transcripts = FALSE
    /\ config = None
    /\ enabled_channels = <<>>
    /\ i = 0
    /\ videos = <<>> /\ articles = <<>> /\ errors = <<>>
    /\ all_videos = <<>> /\ all_articles = <<>> /\ all_errors = <<>>
    /\ sources_attempted = 0 /\ sources_succeeded = 0
    /\ result = None
    /\ fetch_videos_calls = <<>> /\ fetch_articles_calls = <<>>
    /\ get_transcript_calls = <<>>
    /\ call = None
    /\ NoRepository

cli_frame ==
    <<entry_point, args, config_file, config, enabled_channels, i,
      videos, articles, errors, all_videos, all_articles, all_errors,
      sources_attempted, sources_succeeded, result,
      fetch_videos_calls, fetch_articles_calls, get_transcript_calls, call,
      repository_vars>>

\* run_aggregation.py lines 178-194: reject both --youtube-only and
\* --blogs-only, else call aggregate_content (transcripts at their default)
MainRunAggregation ==
    /\ pc = "main"
    /\ entry_point = "run_aggregation"
    /\ IF args.youtube_only /\ args.blogs_only
       THEN /\ exit_code' = 2
            /\ pc' = "exited"
            /\ UNCHANGED <<include_youtube, include_blogs, include_transcripts>>
       ELSE /\ include_youtube' = ~args.blogs_only
            /\ include_blogs' = ~args.youtube_only
            /\ include_transcripts' = TRUE
            /\ pc' = "start"
            /\ UNCHANGED exit_code
    /\ UNCHANGED cli_frame

\* run_aggregation.py lines 196-221: the exit code for the report or the
\* exception of aggregate_content
ExitRunAggregation ==
    /\ pc = "done"
    /\ entry_point = "run_aggregation"
    /\ exit_code' = IF result.raised THEN 2
                    ELSE IF result.value.metadata.total_items = 0 THEN 1
                    ELSE IF has_errors(result.value.metadata) THEN 1
                    ELSE 0
    /\ pc' = "exited"
    /\ UNCHANGED <<include_youtube, include_blogs, include_transcripts, cli_frame>>

\* __main__.py lines 65-72: call aggregate_content with the negated flags
MainApp ==
    /\ pc = "main"
    /\ entry_point = "app"
    /\ include_youtube' = ~args.no_youtube
    /\ include_blogs' = ~args.no_blogs
    /\ include_transcripts' = ~args.no_transcripts
    /\ pc' = "start"
    /\ UNCHANGED <<exit_code, cli_frame>>

\* __main__.py lines 74-89: the exit code for the report or the exception
ExitApp ==
    /\ pc = "done"
    /\ entry_point = "app"
    /\ exit_code' = IF result.raised THEN 1
                    ELSE IF has_errors(result.value.metadata) THEN 1
                    ELSE 0
    /\ pc' = "exited"
    /\ UNCHANGED <<include_youtube, include_blogs, include_transcripts, cli_frame>>

NextCli ==
    \/ MainRunAggregation
    \/ MainApp
    \/ Next
    \/ ExitRunAggregation
    \/ ExitApp

SpecCli == InitCli /\ [][NextCli]_vars

\* C18: both entry points exit with 2 when the configuration cannot be
\* loaded, and after a run that returned a report with 0 when it has no
\* error and at least one item, and with 1 otherwise.
C18_ExitCodeConvention ==
    (pc = "exited" /\ result # None) =>
        IF config_file.status # "ok"
        THEN exit_code = 2
        ELSE ~result.raised =>
                exit_code = IF /\ ~has_errors(result.value.metadata)
                               /\ result.value.metadata.total_items >= 1
                            THEN 0
                            ELSE 1

-----------------------------------------------------------------------------
(* Claims about what each source contributes to the merged lists *)

\* the lists of both fetchers are merged (lines 74-84) and the configuration
\* was loaded
Merged == pc \in {"finalize", "done"} /\ config_file.status = "ok"

\* what a channel contributed to the merged lists: its videos, up to the
\* transcript field, and the error entries that name it
VideosOfChannel(id) ==
    LET mine == SelectSeq(all_videos, LAMBDA v : v.channel_id = id)
    IN  [k \in DOMAIN mine |-> [mine[k] EXCEPT !.transcript = None]]
ErrorsOfChannel(id) == SelectSeq(all_errors, LAMBDA e : Contains(e, <<"(">> \o id \o <<")">>))
\* the error entries of the blog fetch
ErrorsOfBlogs == SelectSeq(all_errors, LAMBDA e : Contains(e, S_FailedArticles))

\* C21: once the lists are merged, every channel fetch that raised left
\* exactly one error entry and no video, every channel fetch that returned
\* left exactly the videos it returned and no error entry, and likewise the
\* articles and the error entry of the blog fetch; no fetch left both or
\* neither.
C21_ItemsOrOneError ==
    Merged =>
        /\ \A k \in DOMAIN fetch_videos_calls :
            LET c == fetch_videos_calls[k]
            IN  IF c.answer.raised
                THEN /\ VideosOfChannel(c.channel_id) = <<>>
                     /\ Len(ErrorsOfChannel(c.channel_id)) = 1
                ELSE /\ VideosOfChannel(c.channel_id) = c.answer.value
                     /\ ErrorsOfChannel(c.channel_id) = <<>>
        /\ \A k \in DOMAIN fetch_articles_calls :
            LET c == fetch_articles_calls[k]
            IN  IF c.answer.raised
                THEN /\ all_articles = <<>>
                     /\ Len(ErrorsOfBlogs) = 1
                ELSE /\ all_articles = c.answer.value
                     /\ ErrorsOfBlogs = <<>>
        /\ Len(all_errors) = FailedFetches

\* the lists are merged after one channel fetch raised, another returned
\* videos, and the blog fetch returned articles
C21_Witness ==
    /\ Merged
    /\ \E j, k \in DOMAIN fetch_videos_calls :
        /\ fetch_videos_calls[j].answer.raised
        /\ ~fetch_videos_calls[k].answer.raised
        /\ fetch_videos_calls[k].answer.value # <<>>
    /\ \E k \in DOMAIN fetch_articles_calls :
        /\ ~fetch_articles_calls[k].answer.raised
        /\ fetch_articles_calls[k].answer.value # <<>>

\* the configured channel with the given id
ChannelOf(id) == CHOOSE ch \in Range(config.youtube.channels) : ch.id = id
\* the error entries the failed fetches of this run stand for, in call order
ChannelErrorsInOrder ==
    LET failed == SelectSeq(fetch_videos_calls, LAMBDA c : c.answer.raised)
    IN  [k \in DOMAIN failed |->
            ChannelErrorMsg(ChannelOf(failed[k].channel_id), failed[k].answer.exc.text)]
BlogErrorsInOrder ==
    LET failed == SelectSeq(fetch_articles_calls, LAMBDA c : c.answer.raised)
    IN  [k \in DOMAIN failed |-> BlogErrorMsg(failed[k].answer.exc.text)]

\* C22: the channels are fetched in configured order; the report's videos
\* are the lists the channel fetches returned, concatenated in that order and
\* each in the order it was returned, and the report's errors are the channel
\* errors in channel order followed by the blog errors.
C22_ReportKeepsFetchOrder ==
    /\ RunEnded =>
        LET fetched == IF YoutubeIsFetched(config, include_youtube)
                       THEN EnabledChannels(config) ELSE <<>>
        IN  [k \in DOMAIN fetch_videos_calls |-> fetch_videos_calls[k].channel_id]
              = [k \in DOMAIN fetched |-> fetched[k].id]
    /\ Returned =>
        /\ [k \in DOMAIN Report.videos |-> [Report.videos[k] EXCEPT !.transcript = None]]
             = FetchedVideos
        /\ Report.metadata.errors = ChannelErrorsInOrder \o BlogErrorsInOrder

\* a report was returned after two channels each returned videos
C22_Witness ==
    /\ Returned
    /\ Len(fetch_videos_calls) = 2
    /\ \A k \in DOMAIN fetch_videos_calls :
        /\ ~fetch_videos_calls[k].answer.raised
        /\ fetch_videos_calls[k].answer.value # <<>>

\* a report was returned after a channel fetch and the blog fetch both failed
C22_WitnessErrors ==
    /\ Returned
    /\ ChannelErrorsInOrder # <<>>
    /\ BlogErrorsInOrder # <<>>

-----------------------------------------------------------------------------
(* Claims about when transcripts are fetched *)

\* C25: a transcript is fetched only when transcript fetching is enabled,
\* only after every channel fetch of the run has finished, and only for a
\* fetched video: the k-th transcript fetch is for the k-th fetched video, so
\* no video has two; and a transcript attached to a video stays as it is until
\* the report is returned.
C25_TranscriptOncePerFetchedVideo ==
    /\ [](get_transcript_calls # <<>> =>
            /\ include_transcripts
            /\ Len(fetch_videos_calls) = Len(enabled_channels)
            /\ Len(get_transcript_calls) <= Len(FetchedVideos)
            /\ \A k \in DOMAIN get_transcript_calls :
                  get_transcript_calls[k].video_id = FetchedVideos[k].video_id)
    /\ [][/\ Len(get_transcript_calls') <= Len(get_transcript_calls) + 1
          /\ \A k \in DOMAIN videos :
               (pc \in {"fetch_transcripts", "return_youtube"} /\ videos[k].transcript # None)
                   => /\ k \in DOMAIN videos'
                      /\ videos'[k].transcript = videos[k].transcript]_vars

\* the transcripts of two videos fetched from two channels have been fetched
C25_Witness ==
    /\ pc = "return_youtube"
    /\ Len(fetch_videos_calls) = 2
    /\ Len(get_transcript_calls) = 2
    /\ get_transcript_calls[1].video_id # get_transcript_calls[2].video_id

-----------------------------------------------------------------------------
(* Claims about the source counters *)

\* C28: when the metadata is about to be constructed the counters satisfy
\* 0 <= sources_succeeded <= sources_attempted, and no run on a loaded
\* configuration ends with the metadata validation rejecting them.
C28_CountersWithinRange ==
    /\ (pc = "finalize" /\ config_file.status = "ok") =>
          /\ 0 <= sources_succeeded
          /\ sources_succeeded <= sources_attempted
    /\ RunEnded => ~(result.raised /\ result.exc.cls = "ValidationError")

\* the fetches of this run that returned without error
ReturnedFetches ==
    Cardinality({k \in DOMAIN fetch_videos_calls : ~fetch_videos_calls[k].answer.raised})
    + Cardinality({k \in DOMAIN fetch_articles_calls : ~fetch_articles_calls[k].answer.raised})

\* C29: when the metadata is about to be constructed, sources_succeeded
\* counts only sources whose fetch was invoked and returned without error:
\* it is at most the number of such fetches, so a source that was skipped is
\* not among the succeeded ones.
C29_SucceededSourcesWereFetched ==
    (pc = "finalize" /\ config_file.status = "ok") =>
        sources_succeeded <= ReturnedFetches

-----------------------------------------------------------------------------
(* The operations on a report that aggregate_content returned *)

\* most videos, and most articles, of a report
MaxContent == 2

\* published dates, as days
Dates == {1, 2}
\* a VideoData / an ArticleData of a report, with its published date
ContentVideo(video_id, published_date) ==
    [video_id |-> video_id, title |-> S_title_1, transcript |-> None,
     published_date |-> published_date]
ContentArticle(url, published_date) ==
    [url |-> url, title |-> S_title_1, subjects |-> <<>>,
     published_date |-> published_date]
\* two videos published the same day, a later video, and two articles
\* published the day of the two videos
ContentVideos ==
    {ContentVideo(S_abc12345678, 1), ContentVideo(S_kFpLzCVLA20, 1),
     ContentVideo(S_kFpLzCVLA20, 2)}
ContentArticles == {ContentArticle(S_url_1, 1), ContentArticle(S_url_2, 1)}

\* the reports aggregate_content can return on these items: the counters of
\* a run without error, or of a run with one failed source
Reports ==
    {BuildReport(vs, as, m.errors, m.attempted, m.succeeded).value :
        vs \in ListsOf(ContentVideos, MaxContent),
        as \in ListsOf(ContentArticles, MaxContent),
        m \in {[errors |-> <<>>, attempted |-> 2, succeeded |-> 2],
               [errors |-> <<S_error_1>>, attempted |-> 2, succeeded |-> 1]}}

\* sorted(combined, key=lambda x: x.published_date, reverse=True): a stable
\* sort, items of equal date keep the order they have in `combined`
InsertByDate(sorted, x) ==
    LET p == Cardinality({k \in DOMAIN sorted : sorted[k].published_date >= x.published_date})
    IN  SubSeq(sorted, 1, p) \o <<x>> \o SubSeq(sorted, p + 1, Len(sorted))
RECURSIVE SortedByDateDescending(_)
SortedByDateDescending(combined) ==
    IF combined = <<>> THEN <<>>
    ELSE InsertByDate(SortedByDateDescending(SubSeq(combined, 1, Len(combined) - 1)),
                      combined[Len(combined)])

\* all_content that extends and sorts the report's own video list
all_content_sorting_in_place(self) ==
    LET sorted == SortedByDateDescending(self.videos \o self.articles)
    IN  [self |-> [self EXCEPT !.videos = sorted], value |-> sorted]

\* AggregatedContent.all_content: the report afterwards and the returned list
all_content(self) ==
    LET combined == self.videos \o self.articles
    IN  [self |-> self, value |-> SortedByDateDescending(combined)]

\* AggregatedContent.has_content
has_content(self) == Len(self.videos) > 0 \/ Len(self.articles) > 0

\* AggregatedContent.get_content_by_date_range(start_date, end_date)
get_content_by_date_range(self, start_date, end_date) ==
    LET content == all_content(self)
    IN  [self |-> content.self,
         value |-> SelectSeq(content.value,
                     LAMBDA item : /\ start_date <= item.published_date
                                   /\ item.published_date <= end_date)]
DateRanges == {<<1, 1>>, <<2, 2>>}

\* display_summary(aggregated): the report afterwards and what is printed,
\* the statistics of the run and the first ten items of all_content
PreviewLength == 10
display_summary(aggregated) ==
    LET metadata == aggregated.metadata
        content == IF has_content(aggregated) THEN all_content(aggregated)
                   ELSE [self |-> aggregated, value |-> <<>>]
        shown == SubSeq(content.value, 1,
                        IF Len(content.value) < PreviewLength THEN Len(content.value)
                        ELSE PreviewLength)
    IN  [self |-> content.self,
         value |-> [total_items |-> metadata.total_items,
                    success_rate |-> success_rate(metadata).value,
                    errors |-> IF has_errors(metadata) THEN metadata.errors ELSE <<>>,
                    recent |-> [k \in DOMAIN shown |-> shown[k].title]]]

\* export_to_json(aggregated, output_path): the report afterwards and the
\* document written to the file, aggregated.model_dump_json()
export_to_json(aggregated, output_path) ==
    [self |-> aggregated,
     value |-> [json |-> [metadata |-> aggregated.metadata,
                          videos |-> aggregated.videos,
                          articles |-> aggregated.articles]]]

\* the file the report is exported to
S_out_json == <<"o", "u", "t", ".", "j", "s", "o", "n">>

\* a report has been returned and is held in `call`; nothing was saved yet
InitReport ==
    /\ pc = "returned"
    /\ call \in Reports
    /\ result = None
    /\ i = 1
    /\ NoRepository
    /\ config_file = None /\ config = None
    /\ include_youtube = FALSE /\ include_blogs = FALSE /\ include_transcripts = FALSE
    /\ enabled_channels = <<>>
    /\ videos = <<>> /\ articles = <<>> /\ errors = <<>>
    /\ all_videos = <<>> /\ all_articles = <<>> /\ all_errors = <<>>
    /\ sources_attempted = 0 /\ sources_succeeded = 0
    /\ fetch_videos_calls = <<>> /\ fetch_articles_calls = <<>>
    /\ get_transcript_calls = <<>>
    /\ NoMain

\* the holder of the report is between two operations on it
BetweenOperations ==
    pc \in {"returned", "all_content", "date_range", "displayed", "exported", "saved"}

\* aggregated.all_content is read
ReadAllContent ==
    /\ BetweenOperations
    /\ LET content == all_content(call)
       IN  /\ call' = content.self
           /\ result' = Return(content.value)
    /\ pc' = "all_content"
    /\ UNCHANGED <<i, repository_vars, main_vars, aggregation_vars>>

\* aggregated.get_content_by_date_range(start_date, end_date) is called
GetContentByDateRange ==
    /\ BetweenOperations
    /\ \E range \in DateRanges :
         LET content == get_content_by_date_range(call, range[1], range[2])
         IN  /\ call' = content.self
             /\ result' = Return(content.value)
    /\ pc' = "date_range"
    /\ UNCHANGED <<i, repository_vars, main_vars, aggregation_vars>>

\* display_summary(aggregated) is called
DisplaySummary ==
    /\ BetweenOperations
    /\ LET shown == display_summary(call)
       IN  /\ call' = shown.self
           /\ result' = Return(shown.value)
    /\ pc' = "displayed"
    /\ UNCHANGED <<i, repository_vars, main_vars, aggregation_vars>>

\* export_to_json(aggregated, output_path) is called
ExportToJson ==
    /\ BetweenOperations
    /\ LET written == export_to_json(call, S_out_json)
       IN  /\ call' = written.self
           /\ result' = Return(written.value)
    /\ pc' = "exported"
    /\ UNCHANGED <<i, repository_vars, main_vars, aggregation_vars>>

\* save_all(aggregated.videos, aggregated.articles) is called, lines 109-110;
\* the report is saved once
BeginSaveAll ==
    /\ BetweenOperations
    /\ pc # "saved"
    /\ save_calls = <<>>
    /\ v_saved' = 0 /\ v_skipped' = 0
    /\ i' = 1
    /\ pc' = "save_videos"
    /\ UNCHANGED <<call, result, videos_table, articles_table, a_saved, a_skipped,
                   save_calls>>
    /\ UNCHANGED <<main_vars, aggregation_vars>>

NextReport ==
    \/ ReadAllContent \/ GetContentByDateRange \/ DisplaySummary \/ ExportToJson
    \/ BeginSaveAll \/ NextRepository

SpecReport == InitReport /\ [][NextReport]_vars

-----------------------------------------------------------------------------
(* Claims about the operations on a returned report *)

\* the order of str: characters compare by code point, a proper prefix is
\* less than the longer string
CodePointOrder == Digits \o UpperCase \o LowerCase
Ord(c) == CHOOSE k \in DOMAIN CodePointOrder : CodePointOrder[k] = c
RECURSIVE StrLess(_, _)
StrLess(a, b) ==
    IF b = <<>> THEN FALSE
    ELSE IF a = <<>> THEN TRUE
    ELSE IF Head(a) = Head(b) THEN StrLess(Tail(a), Tail(b))
    ELSE Ord(Head(a)) < Ord(Head(b))
\* the natural key of an item: video_id of a video, url of an article
NaturalKey(item) == IF "video_id" \in DOMAIN item THEN item.video_id ELSE item.url

\* a list in every order of arrival
Arrivals(list) ==
    {[k \in DOMAIN list |-> list[f[k]]] : f \in Permutations(DOMAIN list)}
\* how many times an item occurs in a list
Occurrences(list, item) == Cardinality({k \in DOMAIN list : list[k] = item})

\* C23: the list all_content returned holds every video and every article
\* of the report exactly once, so total_items items; it is in descending
\* order of published date; items of equal date are in ascending order of
\* natural key; and it is the list all_content returns for every order in
\* which the same videos and articles could have arrived.
C23_AllContentOrderIsDetermined ==
    pc = "all_content" =>
        LET value == result.value
        IN  /\ Len(value) = call.metadata.total_items
            /\ \A item \in Range(call.videos) \cup Range(call.articles) :
                  Occurrences(value, item)
                    = Occurrences(call.videos, item) + Occurrences(call.articles, item)
            /\ \A j, k \in DOMAIN value :
                  j < k => value[j].published_date >= value[k].published_date
            /\ \A j, k \in DOMAIN value :
                  (j < k /\ value[j].published_date = value[k].published_date)
                      => ~StrLess(NaturalKey(value[k]), NaturalKey(value[j]))
            /\ \A vs \in Arrivals(call.videos), as \in Arrivals(call.articles) :
                  all_content([call EXCEPT !.videos = vs, !.articles = as]).value = value

\* C24: no operation on a returned report (save_all, all_content,
\* get_content_by_date_range, display_summary, export_to_json) changes the
\* report: its videos, its articles and its metadata (errors and counters)
\* stay what aggregate_content returned, whatever the saves returned.
C24_ReportIsNotChanged == [][call' = call]_vars

\* save_all stored an item of the report, and the content of the report was
\* read afterwards
C24_Witness ==
    /\ pc = "all_content"
    /\ Len(result.value) >= 2
    /\ \E k \in DOMAIN save_calls : save_calls[k].returned
    /\ Len(save_calls) = Len(call.videos) + Len(call.articles)

-----------------------------------------------------------------------------
(* Concurrent saves: several callers of save_video / save_article, each on
   its own connection, against the same database *)

\* most concurrent savers
MaxSavers == 2
Savers == 1..MaxSavers

\* what a saver saves
SaveRequests ==
    {[kind |-> "video", item |-> v] : v \in VideoItems}
    \cup {[kind |-> "article", item |-> a] : a \in ArticleItems}

InitConcurrent ==
    /\ call \in [Savers -> SaveRequests]
    /\ pc = [p \in Savers |-> "connect"]
    /\ result = [p \in Savers |-> None]
    /\ i = 1
    /\ NoRepository
    /\ config_file = None /\ config = None
    /\ include_youtube = FALSE /\ include_blogs = FALSE /\ include_transcripts = FALSE
    /\ enabled_channels = <<>>
    /\ videos = <<>> /\ articles = <<>> /\ errors = <<>>
    /\ all_videos = <<>> /\ all_articles = <<>> /\ all_errors = <<>>
    /\ sources_attempted = 0 /\ sources_succeeded = 0
    /\ fetch_videos_calls = <<>> /\ fetch_articles_calls = <<>>
    /\ get_transcript_calls = <<>>
    /\ NoMain

\* building the parameters of the statement raises before it is executed
StatementRaises(c) == c.kind = "article" /\ GetAttr(c.item, "subject_tags").raised

\* saver q inserted a row and has not committed yet
InFlight(q) == pc[q] = "commit" /\ result[q].rowcount = 1

\* lines 21-49 / 69-88: saver p connects and executes its INSERT ... ON
\* CONFLICT DO NOTHING. The unique constraint makes the statement wait while
\* another transaction holds an uncommitted row with the same key. An
\* exception (no connection, or raised while building the parameters) is
\* caught and False is returned.
ExecuteInsert(p) ==
    /\ pc[p] = "connect"
    /\ \E db \in DbAnswers :
         LET c == call[p]
             table == IF c.kind = "video" THEN videos_table ELSE articles_table
             saved == IF c.kind = "video" THEN save_video(c.item, table, db)
                      ELSE save_article(c.item, table, db)
             raised == db.raised \/ StatementRaises(c)
         IN  /\ ~raised =>
                 ~\E q \in Savers \ {p} :
                      /\ InFlight(q)
                      /\ call[q].kind = c.kind
                      /\ NaturalKey(call[q].item) = NaturalKey(c.item)
             /\ IF c.kind = "video"
                THEN videos_table' = saved.table /\ UNCHANGED articles_table
                ELSE articles_table' = saved.table /\ UNCHANGED videos_table
             /\ IF raised
                THEN /\ result' = [result EXCEPT ![p] = Return(saved.returned)]
                     /\ pc' = [pc EXCEPT ![p] = "returned"]
                ELSE /\ result' = [result EXCEPT
                                     ![p] = [rowcount |-> IF saved.returned THEN 1 ELSE 0]]
                     /\ pc' = [pc EXCEPT ![p] = "commit"]
             /\ save_calls' = Append(save_calls, [saver |-> p, db |-> db])
    /\ UNCHANGED <<call, i, v_saved, v_skipped, a_saved, a_skipped>>
    /\ UNCHANGED <<main_vars, aggregation_vars>>

\* lines 49-52 / 88-91: saver p commits and returns result.rowcount > 0
CommitAndReturn(p) ==
    /\ pc[p] = "commit"
    /\ result' = [result EXCEPT ![p] = Return(result[p].rowcount > 0)]
    /\ pc' = [pc EXCEPT ![p] = "returned"]
    /\ UNCHANGED <<call, i, repository_vars>>
    /\ UNCHANGED <<main_vars, aggregation_vars>>

NextConcurrent == \E p \in Savers : ExecuteInsert(p) \/ CommitAndReturn(p)

SpecConcurrent == InitConcurrent /\ [][NextConcurrent]_vars

\* the savers of the same natural key as saver p, and the rows with that key
SaversOfKeyOf(p) ==
    {q \in Savers : /\ call[q].kind = call[p].kind
                    /\ NaturalKey(call[q].item) = NaturalKey(call[p].item)}
RowsOfKeyOf(p) ==
    IF call[p].kind = "video"
    THEN RowsWithKey(videos_table, "video_id", call[p].item.video_id)
    ELSE RowsWithKey(articles_table, "url", call[p].item.url)

\* C26: when concurrent saves into a working store have all returned, then
\* for every saved natural key exactly one of its saves returned True, the
\* others returned False, and the store holds exactly one row with that key,
\* whatever the other keys saved at the same time.
C26_OneConcurrentSaveInserts ==
    (/\ \A p \in Savers : pc[p] = "returned"
     /\ \A k \in DOMAIN save_calls : ~save_calls[k].db.raised) =>
        \A p \in Savers :
            /\ Cardinality({q \in SaversOfKeyOf(p) : result[q].value = TRUE}) = 1
            /\ \A q \in SaversOfKeyOf(p) : result[q].value \in BOOLEAN
            /\ Cardinality(RowsOfKeyOf(p)) = 1

-----------------------------------------------------------------------------
(* The run identifier: several invocations of aggregate_content *)

\* most invocations
MaxRuns == 2
Runs == 1..MaxRuns

\* what datetime.now() reads when an invocation starts: a time of day on one
\* date, with its microseconds
S_agg == <<"a", "g", "g", "_">>
S_20240118 == <<"2", "0", "2", "4", "0", "1", "1", "8">>
ClockReadings ==
    [date : {S_20240118}, hour : {14}, minute : {30}, second : {21, 22, 23},
     microsecond : {0, 500000}]

\* "%02d" % n, as strftime pads %H, %M and %S
TwoDigits(n) == <<Digit(n \div 10), Digit(n % 10)>>
\* now.strftime('%Y%m%d_%H%M%S'): the microseconds are not part of the text
strftime(now) ==
    now.date \o <<"_">> \o TwoDigits(now.hour) \o TwoDigits(now.minute)
             \o TwoDigits(now.second)
\* line 43: f"agg_{datetime.now().strftime('%Y%m%d_%H%M%S')}"
run_id(now) == S_agg \o strftime(now)

\* each invocation will read the clock at some time, in any order
InitRuns ==
    /\ call \in [Runs -> ClockReadings]
    /\ pc = [r \in Runs |-> "start"]
    /\ result = [r \in Runs |-> None]
    /\ i = 1
    /\ NoRepository
    /\ config_file = None /\ config = None
    /\ include_youtube = FALSE /\ include_blogs = FALSE /\ include_transcripts = FALSE
    /\ enabled_channels = <<>>
    /\ videos = <<>> /\ articles = <<>> /\ errors = <<>>
    /\ all_videos = <<>> /\ all_articles = <<>> /\ all_errors = <<>>
    /\ sources_attempted = 0 /\ sources_succeeded = 0
    /\ fetch_videos_calls = <<>> /\ fetch_articles_calls = <<>>
    /\ get_transcript_calls = <<>>
    /\ NoMain

\* lines 42-44: invocation r generates its run_id
GenerateRunId(r) ==
    /\ pc[r] = "start"
    /\ result' = [result EXCEPT ![r] = run_id(call[r])]
    /\ pc' = [pc EXCEPT ![r] = "started"]
    /\ UNCHANGED <<call, i, repository_vars, main_vars, aggregation_vars>>

NextRuns == \E r \in Runs : GenerateRunId(r)

SpecRuns == InitRuns /\ [][NextRuns]_vars

\* C27: any two distinct invocations that have generated their run_id have
\* different run_ids, whenever they read the clock.
C27_RunIdsAreUnique ==
    \A r1, r2 \in Runs :
        (r1 # r2 /\ pc[r1] = "started" /\ pc[r2] = "started") => result[r1] # result[r2]

-----------------------------------------------------------------------------
(* Termination of aggregate_content *)

\* the run as one thread that takes its next step whenever it has one: every
\* capability call returns or raises, and nothing else delays the thread
SpecTerminating == Init /\ [][Next]_vars /\ WF_vars(Next)

\* C30: a run whose configuration loads eventually returns a report, and
\* at no time has it invoked a capability more often than once per configured
\* channel, once per configured blog aggregator and once per fetched video.
C30_EventuallyReturnsReport ==
    /\ (pc = "start" /\ config_file.status = "ok") ~> Returned
    /\ [](config_file.status = "ok" =>
            /\ Len(fetch_videos_calls) <= Len(config_file.data.youtube.channels)
            /\ Len(fetch_articles_calls) <= Len(config_file.data.blogs)
            /\ Len(get_transcript_calls) <= Len(FetchedVideos))

\* C30, the part that holds: every run ends, by returning a report or by
\* raising; no answer of a capability makes it loop or wait.
C30_RunAlwaysEnds == <>(pc = "done")

====
